---- MODULE Spec2Model ----
(***************************************************************************)
(* Pipeline execution core of the ion shell (src/src/shell/pipe.rs):       *)
(* execute_pipeline, pipe (the short-circuit driver and the pipe-run       *)
(* executor), execute_command, wait, create_pipe, stdin_of and             *)
(* check_if_background_job, together with the parts of the operating       *)
(* system they act on: the shell's descriptor table, the process table,    *)
(* the controlling terminal and the SIGTTOU disposition.                   *)
(***************************************************************************)
EXTENDS Integers, Sequences, FiniteSets, TLC

\* ----------------------------------------------------------------- bounds
\* Longest pipeline (number of jobs) of the driver specification.
MaxJobs == 3
\* Capacity of a kernel pipe buffer, in bytes (scaled down).
PipeCap == 2
\* Descriptor-syscall failures (open, pipe2, dup) the environment injects in one run.
MaxFdFaults == 1

\* -------------------------------------------------------------- constants
\* Exit statuses of super::status.
SUCCESS == 0
FAILURE == 1
NO_SUCH_COMMAND == 127
TERMINATED == 143

\* getpid() of the shell; children get the PIDs after it.
ShellPid == 1
\* A std slot that owns no descriptor (Stdio inherit).
Inherit == 0
\* Descriptors 0, 1 and 2 are the shell's own standard streams.
FirstFd == 3
\* Enough descriptors for every pipe, duplicate and redirection of one pipeline.
MaxFd == FirstFd + 3 * (MaxJobs + 1) + 2
FdRange == FirstFd..MaxFd

\* ------------------------------------------------------------- data types
RedirectFrom == {"Stdout", "Stderr", "Both"}

\* JobKind: And, Or, Background, Last, Pipe(RedirectFrom).
JobKind(t) == [tag |-> t, mode |-> "None"]
Pipe(m) == [tag |-> "Pipe", mode |-> m]

\* Outcomes of a child as waitpid reports them: an exit code, or death by a
\* terminating signal.
ExitCodes == {SUCCESS, FAILURE}
Killed == "killed"
Exited(c) == [how |-> "exit", code |-> c]
BySignal == [how |-> Killed, code |-> TERMINATED]
Outcomes == {Exited(c) : c \in ExitCodes} \cup {BySignal}
Running == [how |-> "running", code |-> 0 - 1]

\* Results of Command::spawn.
SpawnResults == {"Ok", "NotFound", "Other"}

\* Bytes of a here-string.
Bytes == {"a", "\n"}

\* An optional value that is absent.
None == <<>>

Min(a, b) == IF a <= b THEN a ELSE b

\* Sequences over S of length lo..hi.
SeqsOf(S, lo, hi) == UNION {[1..n -> S] : n \in lo..hi}

\* ------------------------------------------------------- descriptor table
Closed == [type |-> "closed", id |-> 0, end |-> "-"]
OpenFd(t, i, e) == [type |-> t, id |-> i, end |-> e]

FreeFds(tab) == {fd \in FdRange : tab[fd] = Closed}
LowestFree(tab) == CHOOSE fd \in FreeFds(tab) : \A g \in FreeFds(tab) : fd <= g

\* close(fd); closing a descriptor that is not open changes nothing (EBADF).
Close(tab, fd) == IF fd \in FdRange THEN [tab EXCEPT ![fd] = Closed] ELSE tab

\* The lowest free descriptor now refers to object (t, i, e).
Open(tab, t, i, e) == [tab EXCEPT ![LowestFree(tab)] = OpenFd(t, i, e)]

\* A prepared command: its three std slots, each Inherit or an owned descriptor.
NewCommand == [stdin |-> Inherit, stdout |-> Inherit, stderr |-> Inherit]

\* Command::stdin / stdout / stderr: the slot takes the descriptor; the Stdio it
\* held before is dropped, which closes the descriptor that one owned.
SetSlot(st, slot, fd) ==
    LET old == st.cmd[slot] IN
    [cmd |-> [st.cmd EXCEPT ![slot] = fd],
     tab |-> IF old = Inherit THEN st.tab ELSE Close(st.tab, old)]

\* Dropping a Command closes the descriptors its slots own, one slot after another.
DropCommand(tab, cmd) ==
    LET t1 == IF cmd.stdin = Inherit THEN tab ELSE Close(tab, cmd.stdin)
        t2 == IF cmd.stdout = Inherit THEN t1 ELSE Close(t1, cmd.stdout)
    IN IF cmd.stderr = Inherit THEN t2 ELSE Close(t2, cmd.stderr)

RECURSIVE DropCommands(_, _, _)
DropCommands(tab, cmds, idxs) ==
    IF idxs = <<>> THEN tab
    ELSE DropCommands(DropCommand(tab, cmds[Head(idxs)].cmd), cmds, Tail(idxs))

\* ------------------------------------------------------------ sys::pipe2
\* A new pipe, object `id`: the read end and the write end take the two lowest
\* free descriptors.
pipe2(tab, id) ==
    LET r == LowestFree(tab)
        t1 == Open(tab, "pipe", id, "r")
        w == LowestFree(t1)
    IN [reader |-> r, writer |-> w, tab |-> Open(t1, "pipe", id, "w")]

\* -------------------------------------------------------------- stdin_of
\* write_all: write() takes what the pipe has room for and is called again for
\* the rest; with the pipe full and bytes left the call blocks.
RECURSIVE write_all(_, _)
write_all(buf, data) ==
    IF data = <<>> THEN [blocked |-> FALSE, buf |-> buf]
    ELSE IF Len(buf) >= PipeCap THEN [blocked |-> TRUE, buf |-> buf]
    ELSE LET n == Min(Len(data), PipeCap - Len(buf))
         IN write_all(buf \o SubSeq(data, 1, n), SubSeq(data, n + 1, Len(data)))

\* stdin_of(input): pipe2, write the whole input into the write end, drop the
\* write end, hand out the read end.
stdin_of(input, tab, id, pipe_ok) ==
    IF ~pipe_ok
    THEN [result |-> "Err", fd |-> Inherit, tab |-> tab, data |-> <<>>]
    ELSE LET p == pipe2(tab, id)
             w == write_all(<<>>, input)
         IN IF w.blocked
            THEN [result |-> "Blocked", fd |-> p.reader, tab |-> p.tab, data |-> w.buf]
            ELSE [result |-> "Ok", fd |-> p.reader, tab |-> Close(p.tab, p.writer),
                  data |-> w.buf]

\* A create_pipe that hands the write end itself to both output slots in mode
\* Both, without duplicating it.
create_pipe_nodup(par, chi, from, tab, id, pipe_ok, dup_ok) ==
    IF ~pipe_ok
    THEN [ok |-> FALSE, parent |-> par, child |-> chi, tab |-> tab]
    ELSE
    LET p == pipe2(tab, id)
        a == IF from = "Stderr"
             THEN SetSlot([cmd |-> par, tab |-> p.tab], "stderr", p.writer)
             ELSE SetSlot([cmd |-> par, tab |-> p.tab], "stdout", p.writer)
        b == IF from = "Both"
             THEN [cmd |-> [a.cmd EXCEPT !.stderr = p.writer], tab |-> a.tab]
             ELSE a
        c == SetSlot([cmd |-> chi, tab |-> b.tab], "stdin", p.reader)
    IN [ok |-> TRUE, parent |-> b.cmd, child |-> c.cmd, tab |-> c.tab]

\* ----------------------------------------------------------- create_pipe
create_pipe(par, chi, from, tab, id, pipe_ok, dup_ok) ==
    IF ~pipe_ok
    THEN [ok |-> FALSE, parent |-> par, child |-> chi, tab |-> tab]
    ELSE
    LET p == pipe2(tab, id)
        both == from = "Both"
        \* temp_file.try_clone(): a second descriptor for the write end
        clone == LowestFree(p.tab)
        t0 == IF both THEN Open(p.tab, "pipe", id, "w") ELSE p.tab
        a == IF from = "Stderr"
             THEN SetSlot([cmd |-> par, tab |-> t0], "stderr", p.writer)
             ELSE SetSlot([cmd |-> par, tab |-> t0], "stdout", p.writer)
        b == IF both THEN SetSlot(a, "stderr", clone) ELSE a
        c == SetSlot([cmd |-> chi, tab |-> b.tab], "stdin", p.reader)
    IN IF both /\ ~dup_ok
       \* the `?` leaves with temp_file still owning the write end: it is closed;
       \* the read end was never wrapped and stays open
       THEN [ok |-> FALSE, parent |-> par, child |-> chi,
             tab |-> Close(p.tab, p.writer)]
       ELSE [ok |-> TRUE, parent |-> b.cmd, child |-> c.cmd, tab |-> c.tab]

\* ----------------------------------------------- check_if_background_job
\* Pipeline::to_string: the commands with their separators.
Separator(kind) ==
    CASE kind.tag = "And" -> <<"&&">>
      [] kind.tag = "Or" -> <<"||">>
      [] kind.tag = "Background" -> <<"&">>
      [] kind.tag = "Last" -> <<>>
      [] kind.mode = "Stdout" -> <<"|">>
      [] kind.mode = "Stderr" -> <<"^|">>
      [] OTHER -> <<"&|">>

RECURSIVE to_string(_)
to_string(jobs) ==
    IF jobs = <<>> THEN <<>>
    ELSE <<"cmd">> \o Separator(Head(jobs).kind) \o to_string(Tail(jobs))

\* Background detection that looks at the first job.
DecidingJob_first(jobs) == jobs[1]

\* The job whose separator decides whether the pipeline goes to the background.
DecidingJob(jobs) == jobs[Len(jobs)]

check_if_background_job(pl, print_comm) ==
    IF DecidingJob(pl.jobs).kind = JobKind("Background")
    THEN [value |-> to_string(pl.jobs), printed |-> print_comm]
    ELSE IF print_comm
         THEN [value |-> None, printed |-> TRUE]
         ELSE [value |-> None, printed |-> FALSE]

\* ------------------------------------------------------------------ state
VARIABLES
    pipeline,          \* the parsed pipeline handed to execute_pipeline
    pc,                \* where the shell is in execute_pipeline / pipe / wait
    background_string, \* result of check_if_background_job
    commands,          \* piped_commands: per job its Command (std slots) and kind
    owned,             \* jobs whose Command the shell has not dropped yet
    next,              \* number of items taken from the `commands` iterator
    here,              \* the here-string pipe: result of stdin_of, bytes in the pipe
    fdtab,             \* the shell's descriptor table
    nobj,              \* pipes and files opened so far
    fd_faults,         \* descriptor-syscall failures injected so far
    foreground,        \* the `foreground` argument of pipe()
    shell_foreground,  \* shell.foreground, the foreground set
    previous_status,
    previous_kind,
    parent,            \* job index of `parent`
    kind,
    mode,
    child,             \* job index of `child`
    remember,          \* job indices of the retained Commands
    children,          \* PIDs of the pipe-run
    pgid,
    procs,             \* process table: procs[k] is the child with PID ShellPid + k
    watch,             \* the running watch_foreground call
    tty_pgrp,          \* foreground process group of the controlling terminal
    sigttou_ignored,   \* a SignalHandler is alive
    sigterm_sent,      \* PIDs that terminate_fg signalled
    hist,              \* per job: what the driver did with it
    ret,               \* return value of pipe()
    exit_status        \* return value of execute_pipeline

vars == <<pipeline, pc, background_string, commands, owned, next, here, fdtab, nobj,
          fd_faults, foreground, shell_foreground, previous_status, previous_kind,
          parent, kind, mode, child, remember, children, pgid, procs, watch, tty_pgrp,
          sigttou_ignored, sigterm_sent, hist, ret, exit_status>>

NoInput == [type |-> "None", string |-> <<>>]
InputFile == [type |-> "File", string |-> <<>>]
HereString(s) == [type |-> "HereString", string |-> s]
NoOutput == [from |-> "None"]
Redirection(f) == [from |-> f]

NoWatch == [who |-> "none", pgid |-> 0, last_pid |-> 0, exit_status |-> 0, reaped |-> 0]
NoHere == [result |-> "None", string |-> <<>>, data |-> <<>>, id |-> 0, fd |-> Inherit]
NoStatus == 0 - 1
Queued == [fate |-> "queued", pid |-> 0, status |-> NoStatus, seg |-> "none", err |-> "-"]

NJobs == Len(pipeline.jobs)
Pid(k) == ShellPid + k
\* A PID left in the foreground set by an earlier pipeline.
StalePid == Pid(MaxJobs + 1)

\* The state of the shell when execute_pipeline is called with pipeline p, the
\* environment having `faults` descriptor-syscall failures behind it.
InitWith(p, faults) ==
    /\ pipeline = p
    /\ pc = "start"
    /\ background_string = None
    /\ commands = <<>>
    /\ owned = {}
    /\ next = 0
    /\ here = NoHere
    /\ fdtab = [fd \in FdRange |-> Closed]
    /\ nobj = 0
    /\ fd_faults = faults
    /\ foreground = TRUE
    /\ shell_foreground = <<StalePid>>
    /\ previous_status = SUCCESS
    /\ previous_kind = JobKind("And")
    /\ parent = 0
    /\ kind = JobKind("Last")
    /\ mode = "None"
    /\ child = 0
    /\ remember = <<>>
    /\ children = <<>>
    /\ pgid = 0
    /\ procs = <<>>
    /\ watch = NoWatch
    /\ tty_pgrp = ShellPid
    /\ sigttou_ignored = FALSE
    /\ sigterm_sent = {}
    /\ hist = [i \in 1..Len(p.jobs) |-> Queued]
    /\ ret = NoStatus
    /\ exit_status = NoStatus

Job(k) == [kind |-> k]

\* The driver specification: every sequence of up to MaxJobs separators, pipes
\* carrying stdout, no redirection, and descriptor syscalls that succeed.
DriverKinds == {JobKind(t) : t \in {"And", "Or", "Background", "Last"}} \cup {Pipe("Stdout")}
Init ==
    \E js \in SeqsOf({Job(k) : k \in DriverKinds}, 1, MaxJobs) :
        InitWith([jobs |-> js, stdin |-> NoInput, stdout |-> NoOutput], MaxFdFaults)

\* The wiring specification: one command, two commands joined by `&&`, or two
\* neighbours of a pipe-run in each redirect mode, as a foreground or a
\* background pipeline or with a further pipe after them; every input source and
\* output sink; descriptor syscalls that may fail.
WireJobs ==
    {<<Job(l)>> : l \in {JobKind("Last"), JobKind("Background")}}
    \cup {<<Job(JobKind("And")), Job(JobKind("Last"))>>}
    \cup {<<Job(Pipe(m)), Job(l)>> : m \in RedirectFrom,
                l \in {JobKind("Last"), JobKind("Background"), Pipe("Stdout")}}
\* Here-strings up to one byte more than a pipe holds, with and without the
\* final newline.
HereStrings ==
    {s \in SeqsOf(Bytes, 0, PipeCap + 1) : \A i \in 1..(Len(s) - 1) : s[i] = "a"}
Inputs == {NoInput, InputFile} \cup {HereString(s) : s \in HereStrings}
Outputs == {NoOutput} \cup {Redirection(f) : f \in RedirectFrom}
InitWire ==
    \E js \in WireJobs, i \in Inputs, o \in Outputs :
        InitWith([jobs |-> js, stdin |-> i, stdout |-> o], 0)

\* An injected failure of a descriptor syscall uses up the budget.
Syscall(ok) == ok \/ fd_faults < MaxFdFaults
Faults(ok) == IF ok THEN fd_faults ELSE fd_faults + 1

\* ------------------------------------------------------ execute_pipeline
\* Lines 82-121: background detection, the Commands, the input source.
ExecutePipelineInput ==
    /\ pc = "start"
    /\ \E print_comm \in BOOLEAN, ok \in BOOLEAN :
        LET built == [i \in 1..NJobs |-> [cmd |-> NewCommand, kind |-> pipeline.jobs[i].kind]]
            in == pipeline.stdin
            \* if !string.ends_with('\n') { string.push('\n') }
            s == IF in.string # <<>> /\ in.string[Len(in.string)] = "\n"
                 THEN in.string ELSE in.string \o <<"\n">>
            r == stdin_of(s, fdtab, nobj + 1, ok)
            f == SetSlot([cmd |-> NewCommand, tab |-> Open(fdtab, "file", nobj + 1, "r")],
                         "stdin", LowestFree(fdtab))
        IN
        /\ Syscall(ok)
        /\ in.type = "None" => ok
        /\ background_string' = check_if_background_job(pipeline, print_comm).value
        /\ owned' = 1..NJobs
        /\ fd_faults' = Faults(ok)
        /\ CASE in.type = "None" ->
                  /\ commands' = built
                  /\ UNCHANGED <<here, fdtab, nobj>>
                  /\ pc' = "output"
             [] in.type = "File" ->
                  /\ commands' = IF ok THEN [built EXCEPT ![1].cmd = f.cmd] ELSE built
                  /\ fdtab' = IF ok THEN f.tab ELSE fdtab
                  /\ nobj' = IF ok THEN nobj + 1 ELSE nobj
                  /\ pc' = "output"
                  /\ UNCHANGED here
             [] OTHER ->
                  /\ commands' = IF r.result = "Ok"
                                 THEN [built EXCEPT ![1].cmd.stdin = r.fd] ELSE built
                  /\ fdtab' = r.tab
                  /\ nobj' = IF ok THEN nobj + 1 ELSE nobj
                  /\ here' = [result |-> r.result, string |-> s, data |-> r.data,
                              id |-> IF ok THEN nobj + 1 ELSE 0, fd |-> r.fd]
                  \* a write_all that blocks never returns
                  /\ pc' = IF r.result = "Blocked" THEN "blocked" ELSE "output"
    /\ UNCHANGED <<pipeline, next, foreground, shell_foreground, previous_status,
                   previous_kind, parent, kind, mode, child, remember, children, pgid,
                   procs, watch, tty_pgrp, sigttou_ignored, sigterm_sent, hist, ret,
                   exit_status>>

\* Lines 123-153: the output sink goes to the last job.
ExecutePipelineOutput ==
    /\ pc = "output"
    /\ \E ok \in BOOLEAN :
        LET out == pipeline.stdout
            fd == LowestFree(fdtab)
            opened == [cmd |-> commands[NJobs].cmd, tab |-> Open(fdtab, "file", nobj + 1, "w")]
            set == CASE out.from = "Both" -> SetSlot(SetSlot(opened, "stderr", fd), "stdout", fd)
                     [] out.from = "Stderr" -> SetSlot(opened, "stderr", fd)
                     [] OTHER -> SetSlot(opened, "stdout", fd)
        IN
        /\ Syscall(ok)
        /\ out.from = "None" => ok
        /\ fd_faults' = Faults(ok)
        /\ IF out.from = "None" \/ ~ok
           THEN UNCHANGED <<commands, fdtab, nobj>>
           ELSE /\ commands' = [commands EXCEPT ![NJobs].cmd = set.cmd]
                /\ fdtab' = set.tab
                /\ nobj' = nobj + 1
    /\ pc' = "dispatch"
    /\ UNCHANGED <<pipeline, background_string, owned, next, here, foreground,
                   shell_foreground, previous_status, previous_kind, parent, kind, mode,
                   child, remember, children, pgid, procs, watch, tty_pgrp,
                   sigttou_ignored, sigterm_sent, hist, ret, exit_status>>

\* An execute_pipeline that runs pipe() without a SignalHandler.
sig_ignore_missing(was) == was

\* Line 161: while _sig_ignore is alive SIGTTOU is ignored, whatever its
\* disposition was.
sig_ignore(was) == TRUE

\* Lines 155-163: clear the foreground set; a background pipeline is handed to
\* fork_pipe, whose parent returns SUCCESS at once while the forked shell runs
\* pipe(.., false); a foreground one runs pipe(.., true) under a SignalHandler.
ExecutePipelineDispatch ==
    /\ pc = "dispatch"
    /\ shell_foreground' = <<>>
    /\ IF background_string # None
       THEN /\ exit_status' = SUCCESS
            /\ foreground' = FALSE
            /\ UNCHANGED sigttou_ignored
       ELSE /\ sigttou_ignored' = sig_ignore(sigttou_ignored)
            /\ foreground' = TRUE
            /\ UNCHANGED exit_status
    /\ previous_status' = SUCCESS
    /\ previous_kind' = JobKind("And")
    /\ next' = 0
    /\ pc' = "loop"
    /\ UNCHANGED <<pipeline, background_string, commands, owned, here, fdtab, nobj,
                   fd_faults, parent, kind, mode, child, remember, children, pgid, procs,
                   watch, tty_pgrp, sigterm_sent, hist, ret>>

\* An epilogue that leaves the terminal where it is.
regain_tty_keep(cur) == cur

\* An epilogue that is left out when a stage failed to spawn.
regain_tty_unless_failed(cur) == IF ret = NO_SUCH_COMMAND THEN cur ELSE ShellPid

\* Line 165: tcsetpgrp(0, getpid()) when the terminal belongs to group `cur`.
regain_tty(cur) == ShellPid

\* Lines 164-166, or the exit of the forked background shell.
ExecutePipelineReturn ==
    /\ pc = "return"
    /\ IF foreground
       THEN /\ tty_pgrp' = regain_tty(tty_pgrp)
            /\ sigttou_ignored' = FALSE
            /\ exit_status' = ret
       ELSE UNCHANGED <<tty_pgrp, sigttou_ignored, exit_status>>
    /\ pc' = "done"
    /\ UNCHANGED <<pipeline, background_string, commands, owned, next, here, fdtab, nobj,
                   fd_faults, foreground, shell_foreground, previous_status,
                   previous_kind, parent, kind, mode, child, remember, children, pgid,
                   procs, watch, sigterm_sent, hist, ret>>

\* ------------------------------------------------------------------ pipe
RECURSIVE Ascending(_)
Ascending(S) ==
    IF S = {} THEN <<>>
    ELSE LET m == CHOOSE x \in S : \A y \in S : x <= y IN <<m>> \o Ascending(S \ {m})

Range(f) == {f[i] : i \in DOMAIN f}

\* Every Command the shell still holds goes out of scope.
DropAll(tab, own) == DropCommands(tab, commands, Ascending(own))

\* Lines 183-193: does the driver skip the job that follows a segment of
\* separator `pk` that ended with status `ps`?
Skips(pk, ps) ==
    \/ pk.tag = "And" /\ ps # SUCCESS
    \/ pk.tag = "Or" /\ ps = SUCCESS

\* A driver that never advances previous_kind over a skipped job.
AfterSkip_stale(pk, k) == pk

\* A driver that advances previous_kind to the separator of every skipped job.
AfterSkip_always(pk, k) == k

\* Lines 185 and 189: previous_kind after a job of separator k was skipped.
AfterSkip(pk, k) ==
    CASE pk.tag = "And" /\ k.tag = "Or" -> k
      [] pk.tag = "Or" /\ k.tag = "And" -> k
      [] OTHER -> pk

\* Line 181 finds the iterator empty: break, return previous_status.
PipeBreak ==
    /\ pc = "loop"
    /\ next = NJobs
    /\ ret' = previous_status
    /\ fdtab' = DropAll(fdtab, owned)
    /\ owned' = {}
    /\ pc' = "return"
    /\ UNCHANGED <<pipeline, background_string, commands, next, here, nobj, fd_faults,
                   foreground, shell_foreground, previous_status, previous_kind, parent,
                   kind, mode, child, remember, children, pgid, procs, watch, tty_pgrp,
                   sigttou_ignored, sigterm_sent, hist, exit_status>>

\* Lines 183-191: the job is skipped.
PipeSkip ==
    /\ pc = "loop"
    /\ next < NJobs
    /\ Skips(previous_kind, previous_status)
    /\ previous_kind' = AfterSkip(previous_kind, commands[next + 1].kind)
    /\ next' = next + 1
    /\ fdtab' = DropCommand(fdtab, commands[next + 1].cmd)
    /\ owned' = owned \ {next + 1}
    /\ hist' = [hist EXCEPT ![next + 1].fate = "skipped"]
    /\ UNCHANGED <<pipeline, pc, background_string, commands, here, nobj, fd_faults,
                   foreground, shell_foreground, previous_status, parent, kind, mode,
                   child, remember, children, pgid, procs, watch, tty_pgrp,
                   sigttou_ignored, sigterm_sent, ret, exit_status>>

\* Lines 196-205: a job with a Pipe separator opens a pipe-run.
PipeRunStart ==
    /\ pc = "loop"
    /\ next < NJobs
    /\ ~Skips(previous_kind, previous_status)
    /\ commands[next + 1].kind.tag = "Pipe"
    /\ parent' = next + 1
    /\ kind' = commands[next + 1].kind
    /\ mode' = commands[next + 1].kind.mode
    /\ remember' = <<>>
    /\ children' = <<>>
    /\ pgid' = 0
    /\ next' = next + 1
    /\ pc' = "while"
    /\ UNCHANGED <<pipeline, background_string, commands, owned, here, fdtab, nobj,
                   fd_faults, foreground, shell_foreground, previous_status,
                   previous_kind, child, procs, watch, tty_pgrp, sigttou_ignored,
                   sigterm_sent, hist, ret, exit_status>>

\* ------------------------------------------------------------- spawning
NewPid == Pid(Len(procs) + 1)

\* create_process_group(pgid) in the child's before_exec hook: setpgid(0, pgid),
\* where 0 makes the child the leader of a group of its own.
create_process_group(pid, pg) == IF pg = 0 THEN pid ELSE pg

\* A stage spawn failure that reports the generic failure status.
spawn_proc_error_failure == FAILURE

\* Line 227: what pipe() returns when a stage of a pipe-run fails to spawn.
spawn_proc_error == NO_SUCH_COMMAND

\* Lines 291-300: what execute_command returns for a spawn error of kind `e`.
execute_command_error(e) == FAILURE

\* A spawn_proc! that takes every stage it spawns for the group's id.
spawn_proc_pgid_latest(pg, pid) == pid

\* Lines 216-217: pgid after a stage was spawned with PID pid.
spawn_proc_pgid(pg, pid) == IF pg = 0 THEN pid ELSE pg

\* A spawn_proc! that forgets to record the stage in the foreground set.
foreground_push_forgets(fg, pid) == fg

\* Line 222: shell.foreground.push(child.id()).
foreground_push(fg, pid) == Append(fg, pid)

\* spawn_proc!, lines 214-224: the stage was spawned.
SpawnProcOk(job) ==
    /\ procs' = Append(procs, [job |-> job, pgid |-> create_process_group(NewPid, pgid),
                               outcome |-> Running, order |-> 0])
    /\ pgid' = spawn_proc_pgid(pgid, NewPid)
    /\ tty_pgrp' = IF pgid = 0 /\ foreground THEN NewPid ELSE tty_pgrp
    /\ shell_foreground' = foreground_push(shell_foreground, NewPid)
    /\ children' = Append(children, NewPid)
    /\ hist' = [hist EXCEPT ![job].fate = "spawned", ![job].pid = NewPid]

\* spawn_proc!, lines 225-228: pipe() returns; everything it holds is dropped.
SpawnProcErr(job, e) ==
    /\ ret' = spawn_proc_error
    /\ pc' = "return"
    /\ fdtab' = DropAll(fdtab, owned)
    /\ owned' = {}
    /\ hist' = [hist EXCEPT ![job].fate = "failed", ![job].seg = "stage", ![job].err = e]
    /\ UNCHANGED <<procs, pgid, tty_pgrp, shell_foreground, children, remember, parent,
                   mode, kind>>

\* Lines 234-239: the while loop takes the next job and wires a pipe to it.
PipeWhile ==
    /\ pc = "while"
    /\ next < NJobs
    /\ \E pipe_ok \in BOOLEAN, dup_ok \in BOOLEAN :
        LET ok == pipe_ok /\ dup_ok
            r == create_pipe(commands[parent].cmd, commands[next + 1].cmd, mode, fdtab,
                             nobj + 1, pipe_ok, dup_ok)
        IN
        /\ Syscall(ok)
        /\ ~pipe_ok => dup_ok
        /\ ~dup_ok => mode = "Both"
        /\ fd_faults' = Faults(ok)
        /\ commands' = [commands EXCEPT ![parent].cmd = r.parent, ![next + 1].cmd = r.child]
        /\ fdtab' = r.tab
        /\ nobj' = IF pipe_ok THEN nobj + 1 ELSE nobj
    /\ child' = next + 1
    /\ next' = next + 1
    /\ pc' = "spawn_parent"
    /\ UNCHANGED <<pipeline, background_string, owned, here, foreground,
                   shell_foreground, previous_status, previous_kind, parent, kind, mode,
                   remember, children, pgid, procs, watch, tty_pgrp, sigttou_ignored,
                   sigterm_sent, hist, ret, exit_status>>

\* Line 234 finds the iterator empty.
PipeWhileEnd ==
    /\ pc = "while"
    /\ next = NJobs
    /\ pc' = "wait"
    /\ UNCHANGED <<pipeline, background_string, commands, owned, next, here, fdtab, nobj,
                   fd_faults, foreground, shell_foreground, previous_status,
                   previous_kind, parent, kind, mode, child, remember, children, pgid,
                   procs, watch, tty_pgrp, sigttou_ignored, sigterm_sent, hist, ret,
                   exit_status>>

\* Lines 240-249: spawn `parent`, remember it, go on with `child`.
SpawnParent ==
    /\ pc = "spawn_parent"
    /\ \E r \in SpawnResults :
        IF r = "Ok"
        THEN /\ SpawnProcOk(parent)
             /\ remember' = Append(remember, parent)
             /\ IF commands[child].kind.tag = "Pipe"
                THEN /\ parent' = child
                     /\ mode' = commands[child].kind.mode
                     /\ pc' = "while"
                     /\ UNCHANGED kind
                ELSE /\ kind' = commands[child].kind
                     /\ pc' = "spawn_child"
                     /\ UNCHANGED <<parent, mode>>
             /\ UNCHANGED <<fdtab, owned, ret>>
        ELSE SpawnProcErr(parent, r)
    /\ UNCHANGED <<pipeline, background_string, commands, next, here, nobj, fd_faults,
                   foreground, previous_status, previous_kind, child, watch,
                   sigttou_ignored, sigterm_sent, exit_status>>

\* Lines 250-252: spawn the last stage, remember it, leave the loop.
SpawnChild ==
    /\ pc = "spawn_child"
    /\ \E r \in SpawnResults :
        IF r = "Ok"
        THEN /\ SpawnProcOk(child)
             /\ remember' = Append(remember, child)
             /\ pc' = "wait"
             /\ UNCHANGED <<fdtab, owned, ret, parent, mode, kind>>
        ELSE SpawnProcErr(child, r)
    /\ UNCHANGED <<pipeline, background_string, commands, next, here, nobj, fd_faults,
                   foreground, previous_status, previous_kind, child, watch,
                   sigttou_ignored, sigterm_sent, exit_status>>

\* -------------------------------------------------------------------- wait
\* Line 316.
wait_pgid(pids) == pids[1]
\* A waiter that reports the first stage of the run.
wait_last_pid_first(pids) == pids[1]

\* Line 318.
wait_last_pid(pids) == pids[Len(pids)]

\* Lines 256-257 and 312-321: previous_kind is set and wait() starts watching
\* the group. With no child at all, children[0] panics and the stack unwinds.
Wait ==
    /\ pc = "wait"
    /\ previous_kind' = kind
    /\ IF children = <<>>
       THEN /\ pc' = "panicked"
            /\ fdtab' = DropAll(fdtab, owned)
            /\ owned' = {}
            /\ sigttou_ignored' = FALSE
            /\ UNCHANGED watch
       ELSE /\ pc' = "watch"
            /\ watch' = [who |-> "pipe", pgid |-> wait_pgid(children),
                         last_pid |-> wait_last_pid(children), exit_status |-> SUCCESS,
                         reaped |-> 0]
            /\ UNCHANGED <<fdtab, owned, sigttou_ignored>>
    /\ UNCHANGED <<pipeline, background_string, commands, next, here, nobj, fd_faults,
                   foreground, shell_foreground, previous_status, parent, kind, mode,
                   child, remember, children, pgid, procs, tty_pgrp, sigterm_sent, hist,
                   ret, exit_status>>

\* --------------------------------------------------------- execute_command
\* Lines 263-266 and 279-302: a job that opens no pipe-run is spawned in a group
\* of its own and watched; a spawn error is its status at once.
ExecuteCommand ==
    /\ pc = "loop"
    /\ next < NJobs
    /\ ~Skips(previous_kind, previous_status)
    /\ commands[next + 1].kind.tag # "Pipe"
    /\ next' = next + 1
    /\ \E r \in SpawnResults :
        IF r = "Ok"
        THEN /\ procs' = Append(procs, [job |-> next + 1,
                                        pgid |-> create_process_group(NewPid, 0),
                                        outcome |-> Running, order |-> 0])
             /\ tty_pgrp' = IF foreground THEN NewPid ELSE tty_pgrp
             /\ watch' = [who |-> "single", pgid |-> NewPid, last_pid |-> NewPid,
                          exit_status |-> SUCCESS, reaped |-> 0]
             /\ parent' = next + 1
             /\ kind' = commands[next + 1].kind
             /\ hist' = [hist EXCEPT ![next + 1].fate = "spawned", ![next + 1].pid = NewPid]
             /\ pc' = "watch"
             /\ UNCHANGED <<previous_status, previous_kind, fdtab, owned>>
        ELSE /\ previous_status' = execute_command_error(r)
             /\ previous_kind' = commands[next + 1].kind
             /\ fdtab' = DropCommand(fdtab, commands[next + 1].cmd)
             /\ owned' = owned \ {next + 1}
             /\ hist' = [hist EXCEPT ![next + 1] =
                            [fate |-> "failed", pid |-> 0, status |-> execute_command_error(r),
                             seg |-> "single", err |-> r]]
             /\ UNCHANGED <<procs, tty_pgrp, watch, parent, kind, pc>>
    /\ UNCHANGED <<pipeline, background_string, commands, here, nobj, fd_faults,
                   foreground, shell_foreground, mode, child, remember, children, pgid,
                   sigttou_ignored, sigterm_sent, ret, exit_status>>

\* --------------------------------------------------------- watch_foreground
Without(seq, x) == SelectSeq(seq, LAMBDA y : y # x)
RemoveAt(seq, i) == SubSeq(seq, 1, i - 1) \o SubSeq(seq, i + 1, Len(seq))
\* A closure that always takes the last index.
Position_last(seq, x) == Len(seq)

\* Line 322: children.iter().position(|&x| x as i32 == pid).
Position(seq, x) == CHOOSE i \in 1..Len(seq) : seq[i] = x /\ \A j \in 1..(i - 1) : seq[j] # x

\* Children of the watched group that have not been reaped.
Unreaped == {k \in 1..Len(procs) : procs[k].pgid = watch.pgid /\ procs[k].outcome = Running}

\* A driver that goes on after a terminated pipe-run.
run_terminated_never(status) == FALSE

\* Line 258: does the status of a pipe-run end pipe()?
run_terminated(status) == status = TERMINATED

\* foreground_send(SIGTERM): every PID of the foreground set is signalled.
terminate_fg(fg) == sigterm_sent \cup Range(fg)

\* Which jobs the closure of wait() and the body of the loop still hold when a
\* pipe-run has been waited for.
HeldByRun == (Range(remember) \cup {parent}) \cap owned

\* watch_foreground returns `status` to its caller, which is line 264 for a
\* single command and line 257 for a pipe-run; fg and tab are the foreground set
\* and the descriptor table as the watcher leaves them.
Returns(status, fg, tab, own) ==
    /\ watch' = NoWatch
    /\ previous_status' = status
    /\ shell_foreground' = fg
    /\ IF watch.who = "single"
       THEN /\ previous_kind' = kind
            /\ fdtab' = DropCommand(tab, commands[parent].cmd)
            /\ owned' = own \ {parent}
            /\ hist' = [hist EXCEPT ![parent].status = status, ![parent].seg = "single"]
            /\ pc' = "loop"
            /\ UNCHANGED <<ret, sigterm_sent, remember, children>>
       ELSE /\ UNCHANGED previous_kind
            /\ hist' = [hist EXCEPT ![next].status = status, ![next].seg = "run"]
            /\ remember' = <<>>
            /\ children' = <<>>
            /\ IF run_terminated(status)
               THEN /\ sigterm_sent' = terminate_fg(fg)
                    /\ ret' = status
                    /\ fdtab' = DropCommands(tab, commands, Ascending(own))
                    /\ owned' = {}
                    /\ pc' = "return"
               ELSE /\ fdtab' = DropCommands(tab, commands, Ascending(HeldByRun \cap own))
                    /\ owned' = own \ HeldByRun
                    /\ pc' = "loop"
                    /\ UNCHANGED <<ret, sigterm_sent>>

\* waitpid reports a child of the group that exited: its status is kept if it is
\* last_pid, drop_command(pid) runs (lines 322-325 for a pipe-run), the PID leaves
\* the foreground set, and the watcher goes on waiting.
WatchExit ==
    /\ pc = "watch"
    /\ \E k \in Unreaped, c \in ExitCodes :
        LET pid == Pid(k)
            hit == watch.who = "pipe" /\ pid \in Range(children)
            id == Position(children, pid)
        IN
        /\ procs' = [procs EXCEPT ![k].outcome = Exited(c), ![k].order = watch.reaped + 1]
        /\ watch' = [watch EXCEPT !.exit_status = IF pid = watch.last_pid THEN c ELSE @,
                                  !.reaped = @ + 1]
        /\ shell_foreground' = Without(shell_foreground, pid)
        /\ IF hit
           THEN /\ remember' = RemoveAt(remember, id)
                /\ children' = RemoveAt(children, id)
                /\ fdtab' = DropCommand(fdtab, commands[remember[id]].cmd)
                /\ owned' = owned \ {remember[id]}
           ELSE UNCHANGED <<remember, children, fdtab, owned>>
    /\ UNCHANGED <<pipeline, pc, background_string, commands, next, here, nobj,
                   fd_faults, foreground, previous_status, previous_kind, parent, kind,
                   mode, child, pgid, tty_pgrp, sigttou_ignored, sigterm_sent, hist, ret,
                   exit_status>>

\* waitpid reports a child of the group killed by a terminating signal: the
\* watcher returns TERMINATED without waiting for the rest.
WatchSignal ==
    /\ pc = "watch"
    /\ \E k \in Unreaped :
        /\ procs' = [procs EXCEPT ![k].outcome = BySignal, ![k].order = watch.reaped + 1]
        /\ Returns(TERMINATED, Without(shell_foreground, Pid(k)), fdtab, owned)
    /\ UNCHANGED <<pipeline, background_string, commands, next, here, nobj, fd_faults,
                   foreground, parent, kind, mode, child, pgid, tty_pgrp,
                   sigttou_ignored, exit_status>>

\* waitpid finds no child left in the group: the watcher returns the status it kept.
WatchDone ==
    /\ pc = "watch"
    /\ Unreaped = {}
    /\ Returns(watch.exit_status, shell_foreground, fdtab, owned)
    /\ UNCHANGED <<pipeline, background_string, commands, next, here, nobj, fd_faults,
                   foreground, parent, kind, mode, child, pgid, procs, tty_pgrp,
                   sigttou_ignored, exit_status>>

\* ------------------------------------------------------------ specification
Next ==
    \/ ExecutePipelineInput
    \/ ExecutePipelineOutput
    \/ ExecutePipelineDispatch
    \/ PipeBreak
    \/ PipeSkip
    \/ PipeRunStart
    \/ PipeWhile
    \/ PipeWhileEnd
    \/ SpawnParent
    \/ SpawnChild
    \/ Wait
    \/ ExecuteCommand
    \/ WatchExit
    \/ WatchSignal
    \/ WatchDone
    \/ ExecutePipelineReturn

Spec == Init /\ [][Next]_vars

SpecWire == InitWire /\ [][Next]_vars

\* The pipe-run specification: `x op a | ...`, a command followed by `&&` or
\* `||` and a pipe-run, in pipelines of MaxJobs + 1 jobs whose later separators
\* are free, so that the run may be skipped and may have a segment after it.
InitRun ==
    \E js \in SeqsOf({Job(k) : k \in DriverKinds}, MaxJobs + 1, MaxJobs + 1) :
        /\ js[1].kind.tag \in {"And", "Or"}
        /\ js[2].kind.tag = "Pipe"
        /\ InitWith([jobs |-> js, stdin |-> NoInput, stdout |-> NoOutput], MaxFdFaults)

SpecRun == InitRun /\ [][Next]_vars

\* pipe() called on its own, as fork_pipe and any other caller of the public
\* function may do, with a list of zero to MaxJobs plain Commands.
InitPipe ==
    \E js \in SeqsOf({Job(k) : k \in DriverKinds}, 0, MaxJobs), fg \in BOOLEAN :
        /\ pipeline = [jobs |-> js, stdin |-> NoInput, stdout |-> NoOutput]
        /\ pc = "loop"
        /\ background_string = None
        /\ commands = [i \in 1..Len(js) |-> [cmd |-> NewCommand, kind |-> js[i].kind]]
        /\ owned = 1..Len(js)
        /\ next = 0
        /\ here = NoHere
        /\ fdtab = [fd \in FdRange |-> Closed]
        /\ nobj = 0
        /\ fd_faults = MaxFdFaults
        /\ foreground = fg
        /\ shell_foreground = <<>>
        /\ previous_status = SUCCESS
        /\ previous_kind = JobKind("And")
        /\ parent = 0
        /\ kind = JobKind("Last")
        /\ mode = "None"
        /\ child = 0
        /\ remember = <<>>
        /\ children = <<>>
        /\ pgid = 0
        /\ procs = <<>>
        /\ watch = NoWatch
        /\ tty_pgrp = ShellPid
        /\ sigttou_ignored = fg
        /\ sigterm_sent = {}
        /\ hist = [i \in 1..Len(js) |-> Queued]
        /\ ret = NoStatus
        /\ exit_status = NoStatus

\* The steps of pipe(); it has returned when pc is "return".
NextPipe ==
    \/ PipeBreak
    \/ PipeSkip
    \/ PipeRunStart
    \/ PipeWhile
    \/ PipeWhileEnd
    \/ SpawnParent
    \/ SpawnChild
    \/ Wait
    \/ ExecuteCommand
    \/ WatchExit
    \/ WatchSignal
    \/ WatchDone

SpecPipe == InitPipe /\ [][NextPipe]_vars

\* ---------------------------------------------------------------- claims
Executed(i) == hist[i].fate \in {"spawned", "failed"}
Skipped(i) == hist[i].fate = "skipped"
Untouched(i) == hist[i].fate = "queued"

\* The status required by separator `op` for the next command to run.
Polarity(op, st) ==
    \/ op.tag = "And" /\ st = SUCCESS
    \/ op.tag = "Or" /\ st # SUCCESS

\* cmd1 op1 cmd2 op2 cmd3 with op1, op2 in {And, Or} and cmd3 a plain command.
TruthTableCase ==
    /\ NJobs = 3
    /\ pipeline.jobs[1].kind.tag \in {"And", "Or"}
    /\ pipeline.jobs[2].kind.tag \in {"And", "Or"}
    /\ pipeline.jobs[3].kind.tag # "Pipe"

\* C1: in `cmd1 op1 cmd2 op2 cmd3` cmd1 is always executed; cmd2 is executed iff
\* cmd1's status has the polarity op1 asks for; cmd3 is executed iff the status
\* of cmd2, or of cmd1 when cmd2 was skipped, has the polarity op2 asks for; a
\* command that is not executed is skipped, and the driver judges all three.
ShortCircuitTruthTable ==
    TruthTableCase =>
        /\ \A i \in 1..next : Executed(i) \/ Skipped(i)
        /\ next >= 1 => Executed(1)
        /\ next >= 2 => (Executed(2) <=> Polarity(pipeline.jobs[1].kind, hist[1].status))
        /\ next >= 3 =>
            (Executed(3) <=> Polarity(pipeline.jobs[2].kind,
                                      IF Executed(2) THEN hist[2].status ELSE hist[1].status))
        /\ pc = "done" => next = 3

\* `false && a || b` has run to its end: a was skipped and b executed.
ShortCircuitWitness ==
    /\ TruthTableCase
    /\ pc = "done"
    /\ pipeline.jobs[1].kind.tag = "And"
    /\ pipeline.jobs[2].kind.tag = "Or"
    /\ hist[1].status = FAILURE
    /\ Skipped(2)
    /\ hist[3].fate = "spawned"

\* The process that was spawned for job i.
ProcOf(i) == hist[i].pid - ShellPid
\* The processes of the process group of job i's process.
GroupOf(i) == {k \in 1..Len(procs) : procs[k].pgid = procs[ProcOf(i)].pgid}

\* Job e is the last stage of a pipe-run of two or more stages that were all
\* spawned and have all exited.
RunExited(e) ==
    /\ hist[e].seg = "run"
    /\ hist[e].fate = "spawned"
    /\ Cardinality(GroupOf(e)) >= 2
    /\ \A k \in GroupOf(e) : procs[k].outcome.how = "exit"

\* C2: the status a pipe-run of two or more stages hands to the driver, once all
\* its stages have exited, in whatever order, is the exit status of its last stage.
PipeRunStatusIsLastStage ==
    \A e \in 1..NJobs :
        RunExited(e) => hist[e].status = procs[ProcOf(e)].outcome.code

\* A three-stage run whose last stage exited first, with a status that differs
\* from that of the first stage and of the stage that exited last.
PipeRunStatusWitness ==
    /\ NJobs = 3
    /\ RunExited(3)
    /\ Cardinality(GroupOf(3)) = 3
    /\ procs[ProcOf(3)].order = 1
    /\ procs[ProcOf(3)].outcome.code = SUCCESS
    /\ procs[ProcOf(1)].outcome.code = FAILURE
    /\ procs[ProcOf(2)].outcome.code = FAILURE
    /\ hist[3].status = SUCCESS

\* C3: check_if_background_job returns the pretty form of the pipeline, which
\* ends in `&`, if and only if the separator of the last job is Background, and
\* None otherwise, whatever the print-commands flag and the other separators.
BackgroundDetection ==
    pc # "start" =>
        /\ background_string # None <=> pipeline.jobs[NJobs].kind.tag = "Background"
        /\ background_string # None =>
            /\ background_string = to_string(pipeline.jobs)
            /\ background_string[Len(background_string)] = "&"
        /\ \A print_comm \in BOOLEAN :
            check_if_background_job(pipeline, print_comm).value = background_string

\* A pipeline of three jobs went to the background although an earlier job
\* carries Last, and another stayed in the foreground although it starts with a
\* Background job: both are told apart by one state each, so the first is used.
BackgroundDetectionWitness ==
    /\ pc = "done"
    /\ NJobs = 3
    /\ pipeline.jobs[1].kind.tag = "Last"
    /\ pipeline.jobs[2].kind.tag = "Background"
    /\ pipeline.jobs[3].kind.tag = "Background"
    /\ background_string = <<"cmd", "cmd", "&", "cmd", "&">>

\* The watcher has just returned for a pipe-run of a foreground pipeline and
\* the driver is about to judge the next segment.
RunJustCompleted ==
    /\ foreground
    /\ pc = "loop"
    /\ next >= 1
    /\ hist[next].seg = "run"

\* C4 as claimed: after a pipe-run of a foreground pipeline completes, the shell
\* holds the terminal again before any further segment is judged.
RegainsTerminalBetweenSegments == RunJustCompleted => tty_pgrp = ShellPid

\* C4: after a pipe-run of a foreground pipeline completes, the terminal stays
\* with the group of that pipe-run while the remaining segments are judged, and
\* the shell holds it again when execute_pipeline returns.
RegainsTerminalAtReturn ==
    /\ RunJustCompleted => tty_pgrp = pgid /\ pgid # ShellPid
    /\ foreground /\ pc = "done" => tty_pgrp = ShellPid

\* `a | b && c` in the foreground has returned, c having been spawned after the
\* pipe-run.
RegainsTerminalWitness ==
    /\ foreground
    /\ pc = "done"
    /\ NJobs = 3
    /\ hist[2].seg = "run"
    /\ pipeline.jobs[2].kind.tag = "And"
    /\ hist[3].fate = "spawned"
    /\ tty_pgrp = ShellPid

\* C5: when a pipe-run hands TERMINATED to the driver, pipe() signals the PIDs
\* of the foreground set and returns TERMINATED; no job after the pipe-run is
\* judged or spawned, whatever its separators.
TerminatedRunStops ==
    \A e \in 1..NJobs :
        hist[e].seg = "run" /\ hist[e].status = TERMINATED =>
            /\ pc \in {"return", "done"}
            /\ ret = TERMINATED
            /\ next = e
            /\ \A j \in (e + 1)..NJobs : Untouched(j)
            /\ \A k \in 1..Len(procs) : procs[k].job <= e
            /\ sigterm_sent = Range(shell_foreground)

\* `a | b || c` has returned: a stage was killed, the stage still running was
\* signalled, and c, which `||` would run after a failure, was left alone.
TerminatedRunWitness ==
    /\ pc = "done"
    /\ NJobs = 3
    /\ hist[2].seg = "run"
    /\ hist[2].status = TERMINATED
    /\ pipeline.jobs[2].kind.tag = "Or"
    /\ Untouched(3)
    /\ sigterm_sent # {}

\* The last job of the segment that job i belongs to.
SegEnd(i) ==
    LET ends == {j \in i..NJobs : pipeline.jobs[j].kind.tag # "Pipe"}
    IN IF ends = {} THEN NJobs ELSE CHOOSE j \in ends : \A k \in ends : j <= k

\* A segment that has further segments after it was terminated by signal.
SignalledBeforeEnd ==
    \E k \in 1..Len(procs) : procs[k].outcome = BySignal /\ SegEnd(procs[k].job) < NJobs

\* C6 as claimed: pipe() returns with segments after the last one it entered
\* left unjudged if and only if a segment that has others after it was
\* terminated by signal; after any other error, a stage that fails to spawn
\* included, every following segment is executed or skipped.
StopsOnlyWhenSignalled ==
    pc = "done" =>
        ((\E j \in (SegEnd(next) + 1)..NJobs : Untouched(j)) <=> SignalledBeforeEnd)

\* C7 as claimed: a single command that cannot be spawned yields
\* NO_SUCH_COMMAND when the program is not found and FAILURE otherwise.
SingleSpawnErrorStatus ==
    \A i \in 1..NJobs :
        hist[i].fate = "failed" /\ hist[i].seg = "single" =>
            hist[i].status = IF hist[i].err = "NotFound" THEN NO_SUCH_COMMAND ELSE FAILURE

\* C8: when a stage of a pipe-run fails to spawn, pipe() returns
\* NO_SUCH_COMMAND; no later stage is spawned, and the waiter is not invoked:
\* no stage of the run is reaped and the run hands no status to the driver.
StageSpawnFailureAborts ==
    \A i \in 1..NJobs :
        hist[i].fate = "failed" /\ hist[i].seg = "stage" =>
            /\ pc \in {"return", "done"}
            /\ ret = NO_SUCH_COMMAND
            /\ \A j \in (i + 1)..NJobs : Untouched(j) /\ hist[j].seg = "none"
            /\ watch = NoWatch
            /\ \A k \in 1..Len(procs) : procs[k].pgid = pgid => procs[k].outcome = Running

\* `a | b | c` has returned: a was spawned, b failed to spawn, c never ran.
StageSpawnFailureWitness ==
    /\ pc = "done"
    /\ NJobs = 3
    /\ hist[1].fate = "spawned"
    /\ procs[ProcOf(1)].outcome = Running
    /\ hist[2].fate = "failed"
    /\ hist[2].seg = "stage"
    /\ Untouched(3)
    /\ ret = NO_SUCH_COMMAND

\* C9 as claimed: for every here-string, stdin_of returns, the pipe then holds
\* exactly the string, and no write end of the pipe is open any more.
HereStringDelivered ==
    pipeline.stdin.type = "HereString" /\ here.result \in {"Ok", "Blocked"} =>
        /\ pc # "blocked"
        /\ here.data = here.string
        /\ \A fd \in FdRange : fdtab[fd] # OpenFd("pipe", here.id, "w")

\* The slots of all Commands that own descriptor fd.
Owners(cmds, fd) ==
    {<<i, slot>> \in (DOMAIN cmds) \X {"stdin", "stdout", "stderr"} : cmds[i].cmd[slot] = fd}

\* C10: a create_pipe that succeeds gives the read end of a new pipe to
\* child.stdin and the write end to parent.stdout (Stdout), to parent.stderr
\* (Stderr), or to parent.stdout with a duplicate in parent.stderr (Both); the
\* other slots of parent and child and all other Commands stay as they were,
\* and each descriptor of the pipe is owned by exactly one slot.
PipeWiring ==
    [][pc = "while" /\ pc' = "spawn_parent" /\ fd_faults' = fd_faults =>
        LET p0 == commands[parent].cmd
            p1 == commands'[parent].cmd
            c0 == commands[child'].cmd
            c1 == commands'[child'].cmd
            rd == OpenFd("pipe", nobj', "r")
            wr == OpenFd("pipe", nobj', "w")
            ends == {fd \in FdRange : fdtab'[fd] \in {rd, wr}}
            IsNew(fd, e) == fd \in FdRange /\ fdtab[fd] = Closed /\ fdtab'[fd] = e
        IN
        /\ nobj' = nobj + 1
        /\ IsNew(c1.stdin, rd)
        /\ mode = "Stdout" => IsNew(p1.stdout, wr) /\ p1.stderr = p0.stderr
        /\ mode = "Stderr" => IsNew(p1.stderr, wr) /\ p1.stdout = p0.stdout
        /\ mode = "Both" => IsNew(p1.stdout, wr) /\ IsNew(p1.stderr, wr) /\ p1.stdout # p1.stderr
        /\ p1.stdin = p0.stdin
        /\ c1.stdout = c0.stdout
        /\ c1.stderr = c0.stderr
        /\ \A i \in DOMAIN commands : i \notin {parent, child'} => commands'[i] = commands[i]
        /\ \A fd \in FdRange : fd \notin ends => fdtab'[fd] = fdtab[fd]
        /\ \A fd \in ends : Cardinality(Owners(commands', fd)) = 1
        /\ Cardinality(ends) = IF mode = "Both" THEN 3 ELSE 2
    ]_vars

\* A pipe in mode Both was wired between a parent that reads the input file and
\* a child that writes to the output sink.
PipeWiringWitness ==
    /\ pc = "spawn_parent"
    /\ fd_faults = 0
    /\ mode = "Both"
    /\ pipeline.stdin.type = "File"
    /\ pipeline.stdout.from = "Stdout"
    /\ fdtab[commands[parent].cmd.stdin].type = "file"
    /\ fdtab[commands[child].cmd.stdout].type = "file"
    /\ fdtab[commands[child].cmd.stdin] = OpenFd("pipe", nobj, "r")
    /\ fdtab[commands[parent].cmd.stdout] = OpenFd("pipe", nobj, "w")
    /\ fdtab[commands[parent].cmd.stderr] = OpenFd("pipe", nobj, "w")

\* Line 155 has run: the foreground set was cleared for this pipeline.
SetCleared == pc \notin {"start", "output", "dispatch"}

\* PIDs of the children spawned for this pipeline that have not been reaped.
UnreapedPids == {Pid(k) : k \in {i \in 1..Len(procs) : procs[i].outcome = Running}}

\* Job j ran as a stage of a pipe-run: it carries a Pipe separator, or it
\* follows a stage that was spawned with one.
IsStage(j) ==
    \/ pipeline.jobs[j].kind.tag = "Pipe"
    \/ j > 1 /\ pipeline.jobs[j - 1].kind.tag = "Pipe" /\ hist[j - 1].fate = "spawned"

\* PIDs of the unreaped children that were spawned as stages of pipe-runs.
UnreapedStagePids ==
    {Pid(k) : k \in {i \in 1..Len(procs) : procs[i].outcome = Running /\ IsStage(procs[i].job)}}

\* C11 as claimed: from the clear on, the foreground set holds exactly the PIDs
\* of the unreaped children of this pipeline, stages and single commands alike.
ForegroundSetIsUnreaped == SetCleared => Range(shell_foreground) = UnreapedPids

\* C11: from the clear on, the foreground set holds exactly the PIDs of the
\* unreaped stages of this pipeline's pipe-runs, each once; a single command is
\* never in it; a PID leaves it when its process is reaped.
ForegroundSetIsUnreapedStages ==
    SetCleared =>
        /\ Range(shell_foreground) = UnreapedStagePids
        /\ Cardinality(Range(shell_foreground)) = Len(shell_foreground)

\* In `a | b && c` the stage a was reaped and left the set while b is still
\* running and in it.
ForegroundSetWitness ==
    /\ pc = "watch"
    /\ NJobs = 3
    /\ watch.who = "pipe"
    /\ hist[1].fate = "spawned"
    /\ hist[2].fate = "spawned"
    /\ procs[ProcOf(1)].outcome.how = "exit"
    /\ procs[ProcOf(2)].outcome = Running
    /\ shell_foreground = <<hist[2].pid>>

\* The first stage of the pipe-run that the spawned stage j belongs to.
RECURSIVE RunStart(_)
RunStart(j) ==
    IF j > 1 /\ pipeline.jobs[j - 1].kind.tag = "Pipe" /\ hist[j - 1].fate = "spawned"
    THEN RunStart(j - 1) ELSE j

StageProcs == {k \in 1..Len(procs) : IsStage(procs[k].job)}

\* The descriptors that the Command of job j owns are open.
SlotsOpen(j) ==
    \A slot \in {"stdin", "stdout", "stderr"} :
        commands[j].cmd[slot] # Inherit => fdtab[commands[j].cmd[slot]] # Closed

\* The PID list and the retained commands have the same length, and the
\* command at an index is the one that was spawned as the PID at that index.
ListsAligned ==
    /\ Len(children) = Len(remember)
    /\ \A i \in 1..Len(children) : hist[remember[i]].pid = children[i]

\* C13 as claimed: the Command of every spawned stage is alive, with the
\* descriptors it owns, for as long as the stage has not exited, and is dropped
\* once the stage has exited; the two lists stay aligned.
StagedDropUntilExit ==
    /\ ListsAligned
    /\ \A k \in StageProcs :
        /\ procs[k].outcome = Running => procs[k].job \in owned /\ SlotsOpen(procs[k].job)
        /\ procs[k].outcome.how = "exit" => procs[k].job \notin owned

\* pipe() has returned before the waiter was done with the pipe-run: a stage
\* failed to spawn, or the run was terminated by signal.
ReturnedEarly == pc \in {"return", "done"} /\ ret \in {NO_SUCH_COMMAND, TERMINATED}

\* C13: until pipe() returns, the Command of every spawned stage is alive, with
\* the descriptors it owns, for as long as the stage has not exited, and for
\* every order of exits the Command of the stage that exited, and no other, is
\* dropped; the two lists stay aligned. When pipe() returns early, the Commands
\* of the stages still running are dropped with it.
StagedDrop ==
    /\ ListsAligned
    /\ \A k \in StageProcs :
        /\ procs[k].outcome = Running /\ ~ReturnedEarly =>
              procs[k].job \in owned /\ SlotsOpen(procs[k].job)
        /\ procs[k].outcome = Running /\ ReturnedEarly => procs[k].job \notin owned
        /\ procs[k].outcome.how = "exit" => procs[k].job \notin owned

\* In `a | b | c` the middle stage exited first: its Command is gone, those of
\* a and c are retained, in step with their PIDs.
StagedDropWitness ==
    /\ pc = "watch"
    /\ NJobs = 3
    /\ Len(procs) = 3
    /\ procs[2].outcome.how = "exit"
    /\ procs[1].outcome = Running
    /\ procs[3].outcome = Running
    /\ remember = <<1, 3>>
    /\ children = <<hist[1].pid, hist[3].pid>>
    /\ owned = {1, 3}

\* The driver has just skipped job `next`.
JustSkipped == pc = "loop" /\ next >= 1 /\ Skipped(next)

WireFailed ==
    /\ NJobs = 2
    /\ pipeline.jobs[1].kind.tag = "Pipe"
    /\ next = 2
    /\ commands[2].cmd.stdin = Inherit

\* C15 as claimed: after a create_pipe that failed, neither of the two stages is
\* spawned, and no descriptor of the pipe that the call opened is open in the
\* shell.
FailedWireSpawnsNothing ==
    WireFailed =>
        /\ hist[1].fate # "spawned"
        /\ hist[2].fate # "spawned"
        /\ \A fd \in FdRange : fdtab[fd].type = "pipe" => fdtab[fd].id = here.id

\* The output sink was opened and given to the last job.
SinkOpened ==
    /\ pc \notin {"start", "output"}
    /\ \E slot \in {"stdout", "stderr"} :
        /\ commands[NJobs].cmd[slot] # Inherit
        /\ fdtab[commands[NJobs].cmd[slot]].type = "file"

\* C16 as claimed: with an output sink from Both, the stdout and the stderr slot
\* of the last job own two distinct descriptors of the same file, and no
\* descriptor is owned by two slots of the Commands the shell holds.
SinkBothDuplicated ==
    /\ pipeline.stdout.from = "Both" /\ SinkOpened /\ NJobs \in owned =>
        LET c == commands[NJobs].cmd IN
        /\ c.stdout # c.stderr
        /\ fdtab[c.stdout].type = "file"
        /\ fdtab[c.stdout] = fdtab[c.stderr]
    /\ \A fd \in FdRange :
        Cardinality({o \in Owners(commands, fd) : o[1] \in owned}) <= 1

\* C17 as claimed: pipe() called with an empty list of commands panics; it
\* does not return a status.
EmptyListPanics == NJobs = 0 /\ pc # "loop" => pc = "panicked" /\ ret = NoStatus

\* pipe() is running for a foreground pipeline, or has returned to line 164.
InForegroundPipe ==
    /\ background_string = None
    /\ pc \in {"loop", "while", "spawn_parent", "spawn_child", "wait", "watch", "return"}

\* C18: for a foreground pipeline SIGTTOU is ignored from the call of pipe(),
\* before anything is spawned, up to the tcsetpgrp that reclaims the terminal;
\* once execute_pipeline has returned the handler is released, whether pipe()
\* ran to its end, returned NO_SUCH_COMMAND or returned TERMINATED.
ScopedSigttou ==
    /\ InForegroundPipe => sigttou_ignored
    /\ procs = <<>> /\ pc \in {"start", "output", "dispatch"} => ~sigttou_ignored
    /\ pc = "done" /\ background_string = None =>
        /\ ~sigttou_ignored
        /\ tty_pgrp = ShellPid
        /\ exit_status = ret

\* `a | b && c` in the foreground returned early with TERMINATED, a stage still
\* running, and the handler is released.
ScopedSigttouWitness ==
    /\ pc = "done"
    /\ background_string = None
    /\ NJobs = 3
    /\ ret = TERMINATED
    /\ Untouched(3)
    /\ UnreapedPids # {}
    /\ ~sigttou_ignored

\* C19: whenever execute_pipeline has returned for a foreground pipeline, the
\* terminal belongs to the shell, although some child was handed it on the way:
\* after all segments were done, after a stage failed to spawn, and after a
\* pipe-run was terminated.
TerminalWithShellOnReturn ==
    pc = "done" /\ background_string = None => tty_pgrp = ShellPid

\* `a | b | c` in the foreground returned 127: a was handed the terminal and is
\* still running, b failed to spawn, and the shell has the terminal back.
TerminalWithShellWitness ==
    /\ pc = "done"
    /\ background_string = None
    /\ NJobs = 3
    /\ exit_status = NO_SUCH_COMMAND
    /\ hist[1].fate = "spawned"
    /\ procs[ProcOf(1)].outcome = Running
    /\ procs[ProcOf(1)].pgid = hist[1].pid
    /\ hist[2].fate = "failed"
    /\ tty_pgrp = ShellPid

\* Job j is the first stage of a pipe-run, and the driver skipped it.
SkippedRunAt(j) ==
    /\ pipeline.jobs[j].kind.tag = "Pipe"
    /\ j = 1 \/ pipeline.jobs[j - 1].kind.tag # "Pipe"
    /\ Skipped(j)

\* The status that the driver held when it came to job j: that of the last job
\* before j that it executed.
StatusBefore(j) ==
    LET ran == {i \in 1..(j - 1) : Executed(i)}
    IN hist[CHOOSE i \in ran : \A k \in ran : k <= i].status

\* The driver took job i from the iterator and did not skip it.
Entered(i) == next >= i /\ ~Skipped(i)

\* No stage of the pipe-run that starts at the skipped job j is spawned.
RunSkippedWhole(j) == \A i \in j..SegEnd(j) : ~Executed(i) /\ (next >= i => Skipped(i))

\* C20 as claimed: when the driver skips the first stage of a pipe-run, no stage
\* of the run is spawned, and the job after the run is executed or skipped by
\* the separator of the run's last stage and the status that preceded the run.
SkippedRunJudgedByLastStage ==
    \A j \in 1..NJobs :
        SkippedRunAt(j) =>
            /\ RunSkippedWhole(j)
            /\ next > SegEnd(j) =>
                (Entered(SegEnd(j) + 1)
                    <=> ~Skips(pipeline.jobs[SegEnd(j)].kind, StatusBefore(j)))

====
